---- MODULE Spec2Model ----
(***************************************************************************)
(* Model of src/ecdsa/eddsa.py: Pure EdDSA over edwards25519 and           *)
(* edwards448 (key pruning, PrivateKey, PublicKey, sign, verify).          *)
(*                                                                         *)
(* Byte strings are sequences over 0..255 with the lengths of the code     *)
(* (baselen 32 and 57, digests of 64 and 114 bytes).  A Python integer is  *)
(* its little-endian base-256 numeral without high zero bytes, so that     *)
(* integers of 255, 448 or 912 bits are exact.                             *)
(*                                                                         *)
(* The curve engine (ellipticcurve.PointEdwards) and the hash functions    *)
(* are not part of eddsa.py.  The engine is modelled from its interface:   *)
(* a cyclic group of cofactor(c) * order(c) elements, the generator being  *)
(* an element of prime order order(c), with a canonical encoding of        *)
(* baselen bytes.  The group order is scaled down to a small prime so the  *)
(* group can be enumerated; the hash is a fixed deterministic mixing       *)
(* function with the digest length of the code.                            *)
(***************************************************************************)
EXTENDS Integers, Sequences, FiniteSets, TLC

Curves == {"ed25519", "ed448"}

None == 0 - 1

(***************************************************************************)
(* Bytes and bit operations                                                *)
(***************************************************************************)
Byte == 0..255

RECURSIVE And(_, _)
And(a, b) ==
    IF a = 0 \/ b = 0 THEN 0
    ELSE (a % 2) * (b % 2) + 2 * And(a \div 2, b \div 2)

RECURSIVE Or(_, _)
Or(a, b) ==
    IF a = 0 THEN b
    ELSE IF b = 0 THEN a
    ELSE (IF a % 2 = 1 \/ b % 2 = 1 THEN 1 ELSE 0) + 2 * Or(a \div 2, b \div 2)

RECURSIVE Xor(_, _)
Xor(a, b) ==
    IF a = 0 THEN b
    ELSE IF b = 0 THEN a
    ELSE ((a + b) % 2) + 2 * Xor(a \div 2, b \div 2)

Shl(a, n) == a * 2 ^ n

\* ~m restricted to the width of a bytearray element
Not8(m) == 255 - m

Bit(b, i) == (b \div 2 ^ i) % 2

Zeros(n) == [i \in 1..n |-> 0]

(***************************************************************************)
(* Python integers as numerals                                             *)
(***************************************************************************)
\* the highest index in lo..hi holding a nonzero byte, 0 when there is none
RECURSIVE TopIndex(_, _, _)
TopIndex(b, lo, hi) ==
    IF lo > hi THEN 0
    ELSE IF lo = hi THEN (IF b[lo] # 0 THEN lo ELSE 0)
    ELSE LET mid  == (lo + hi) \div 2
             high == TopIndex(b, mid + 1, hi)
         IN  IF high # 0 THEN high ELSE TopIndex(b, lo, mid)

Strip(b) == SubSeq(b, 1, TopIndex(b, 1, Len(b)))

\* bytes_to_int(b, "little")
bytes_to_int(b) == Strip(b)

\* int_to_bytes(n, length, "little"); the code only calls it with n < order
int_to_bytes(n, length) == n \o Zeros(length - Len(n))

RECURSIVE NatToInt(_)
NatToInt(v) == IF v = 0 THEN <<>> ELSE <<v % 256>> \o NatToInt(v \div 256)

\* n % m for a numeral n and a small modulus m: the digits lo..hi as
\* <<value % m, 256^(hi - lo + 1) % m>>, by halving the range down to
\* runs of at most three digits
RECURSIVE IntModRange(_, _, _, _)
IntModRange(n, lo, hi, m) ==
    IF lo > hi THEN <<0, 1 % m>>
    ELSE IF hi = lo THEN <<n[lo] % m, 256 % m>>
    ELSE IF hi = lo + 1 THEN <<(n[lo] + 256 * n[hi]) % m, 65536 % m>>
    ELSE IF hi = lo + 2
    THEN <<(n[lo] + 256 * n[lo + 1] + 65536 * n[hi]) % m, 16777216 % m>>
    ELSE LET mid  == (lo + hi) \div 2
             low  == IntModRange(n, lo, mid, m)
             high == IntModRange(n, mid + 1, hi, m)
         IN  <<(low[1] + low[2] * high[1]) % m, (low[2] * high[2]) % m>>

IntMod(n, m) == IntModRange(n, 1, Len(n), m)[1]

\* the highest index in lo..hi where a and b differ, 0 when there is none
RECURSIVE TopDiff(_, _, _, _)
TopDiff(a, b, lo, hi) ==
    IF lo > hi THEN 0
    ELSE IF lo = hi THEN (IF a[lo] # b[lo] THEN lo ELSE 0)
    ELSE LET mid  == (lo + hi) \div 2
             high == TopDiff(a, b, mid + 1, hi)
         IN  IF high # 0 THEN high ELSE TopDiff(a, b, lo, mid)

\* a < b for numerals
IntLess(a, b) ==
    IF Len(a) # Len(b) THEN Len(a) < Len(b)
    ELSE LET top == TopDiff(a, b, 1, Len(a))
         IN  top # 0 /\ a[top] < b[top]

IntGE(a, b) == ~IntLess(a, b)

(***************************************************************************)
(* Curve parameter tables                                                  *)
(***************************************************************************)
\* bit_length(curve.p()): p = 2^255 - 19 and p = 2^448 - 2^224 - 1
PBits(c) == IF c = "ed25519" THEN 255 ELSE 448

\* curve.cofactor()
cofactor(c) == IF c = "ed25519" THEN 8 ELSE 4

\* generator.order(): a prime, scaled down from _r
order(c) == IF c = "ed25519" THEN 11 ELSE 13

\* plus one for the sign bit and round up
baselen(c) == (PBits(c) + 1 + 7) \div 8

\* digest length of curve.hash_func: sha512, shake_256(data, 114)
HashLen(c) == IF c = "ed25519" THEN 64 ELSE 114

\* b"SigEd448" + b"\x00\x00" for ed448, empty otherwise
dom(c) ==
    IF c = "ed448" THEN <<83, 105, 103, 69, 100, 52, 52, 56, 0, 0>> ELSE <<>>

(***************************************************************************)
(* Hash primitive: deterministic, fixed digest length per curve            *)
(***************************************************************************)
\* the bytes lo..hi fold into the accumulator as acc -> acc * f[1] + f[2],
\* each byte d contributing acc -> acc * 31 + d + 1 (modulo 32749); by
\* halving the range down to runs of at most three bytes
RECURSIVE HashFold(_, _, _)
HashFold(data, lo, hi) ==
    IF lo > hi THEN <<1, 0>>
    ELSE IF hi = lo THEN <<31, data[lo] + 1>>
    ELSE IF hi = lo + 1 THEN <<961, 31 * (data[lo] + 1) + data[hi] + 1>>
    ELSE IF hi = lo + 2
    THEN <<29791,
           961 * (data[lo] + 1) + 31 * (data[lo + 1] + 1) + data[hi] + 1>>
    ELSE LET mid   == (lo + hi) \div 2
             first == HashFold(data, lo, mid)
             rest  == HashFold(data, mid + 1, hi)
         IN  <<(first[1] * rest[1]) % 32749,
               (first[2] * rest[1] + rest[2]) % 32749>>

hash_func(c, data) ==
    LET f   == HashFold(data, 1, Len(data))
        a0  == HashLen(c) + 7 * Len(data)
        acc == (a0 * f[1] + f[2]) % 32749
    IN  [i \in 1..HashLen(c) |->
            ((acc + i) * ((acc % 97) + 2 * i + 1) + (acc \div 256)) % 256]

(***************************************************************************)
(* Curve engine: points of the group, scalar multiplication, addition,     *)
(* canonical encoding and decoding                                         *)
(***************************************************************************)
GroupSize(c) == cofactor(c) * order(c)

Points(c) == 0..(GroupSize(c) - 1)

\* the base point: an element of order order(c)
generator(c) == cofactor(c)

\* point * n, n a Python integer
scalar_mul(c, P, n) == (P * IntMod(n, GroupSize(c))) % GroupSize(c)

point_add(c, P, Q) == (P + Q) % GroupSize(c)

\* PointEdwards.to_bytes
to_bytes(c, P) == int_to_bytes(NatToInt(P), baselen(c))

\* PointEdwards.from_bytes: the point, or None when decoding raises
from_bytes(c, b) ==
    LET v == bytes_to_int(b)
    IN  IF Len(b) # baselen(c) THEN None
        ELSE IF IntLess(v, NatToInt(GroupSize(c)))
             THEN (IF v = <<>> THEN 0 ELSE v[1])
             ELSE None

(***************************************************************************)
(* PrivateKey._key_prune                                                   *)
(***************************************************************************)
\* variant of _key_prune: the mask of the last byte is 1 << (l % 8) - 1
_key_prune_mask(c, key) ==
    LET h     == cofactor(c)
        h_log == IF h = 4 THEN 2 ELSE 3
        n     == Len(key)
        key0  == [key EXCEPT ![1] = And(key[1], Not8(Shl(1, h_log) - 1))]
        l     == PBits(c)
    IN  IF (l % 8) = 0
        THEN [key0 EXCEPT ![n] = 0, ![n - 1] = Or(key0[n - 1], 128)]
        ELSE [key0 EXCEPT ![n] =
                 Or(And(key0[n], Shl(1, (l % 8) - 1)), Shl(1, (l % 8) - 1))]

_key_prune(c, key) ==
    LET h     == cofactor(c)
        h_log == IF h = 4 THEN 2 ELSE 3
        n     == Len(key)
        key0  == [key EXCEPT ![1] = And(key[1], Not8(Shl(1, h_log) - 1))]
        l     == PBits(c)
    IN  IF (l % 8) = 0
        THEN [key0 EXCEPT ![n] = 0, ![n - 1] = Or(key0[n - 1], 128)]
        ELSE [key0 EXCEPT ![n] =
                 Or(And(key0[n], Shl(1, (l % 8)) - 1), Shl(1, (l % 8) - 1))]

(***************************************************************************)
(* class PublicKey                                                         *)
(***************************************************************************)
\* the value None where a PublicKey object is expected
NoPub == [curve |-> "None", encoded |-> <<>>, point |-> None]

IsNone(o) == o.curve = "None"

\* PublicKey.__init__(generator, public_key, public_point=None).
\* err is the error raised ("" when the object is constructed).
\* A PointEdwards object defines neither __bool__ nor __len__: it is true.
PublicKey_init(c, public_key, public_point) ==
    IF Len(public_key) # baselen(c)
    THEN [err |-> "InvalidKeyLength", obj |-> NoPub]
    ELSE IF public_point # None
    THEN [err |-> "",
          obj |-> [curve |-> c, encoded |-> public_key, point |-> public_point]]
    ELSE LET P == from_bytes(c, public_key)
         IN  IF P = None
             THEN [err |-> "InvalidEncodedPoint", obj |-> NoPub]
             ELSE [err |-> "",
                   obj |-> [curve |-> c, encoded |-> public_key, point |-> P]]

\* PublicKey.__eq__
PublicKey_eq(a, b) == a.curve = b.curve /\ a.encoded = b.encoded

\* variant of PublicKey.verify: S > order instead of S >= order
PublicKey_verify_gt(self, data, signature) ==
    LET c  == self.curve
        bl == baselen(c)
        R  == from_bytes(c, SubSeq(signature, 1, bl))
        S  == bytes_to_int(SubSeq(signature, bl + 1, Len(signature)))
        k  == bytes_to_int(
                  hash_func(c, dom(c) \o to_bytes(c, R) \o self.encoded \o data))
    IN  IF Len(signature) # 2 * bl
        THEN [res |-> "InvalidSignatureLength", muls |-> 0, adds |-> 0]
        ELSE IF R = None
        THEN [res |-> "InvalidEncodedPoint", muls |-> 0, adds |-> 0]
        ELSE IF IntLess(NatToInt(order(c)), S)
        THEN [res |-> "InvalidSignatureValue", muls |-> 0, adds |-> 0]
        ELSE IF scalar_mul(c, generator(c), S)
                    # point_add(c, scalar_mul(c, self.point, k), R)
        THEN [res |-> "SignatureVerificationFailed", muls |-> 2, adds |-> 1]
        ELSE [res |-> "True", muls |-> 2, adds |-> 1]

\* variant of PublicKey.verify: S is reduced modulo the order, not refused
PublicKey_verify_reduce(self, data, signature) ==
    LET c  == self.curve
        bl == baselen(c)
        R  == from_bytes(c, SubSeq(signature, 1, bl))
        S  == NatToInt(IntMod(
                  bytes_to_int(SubSeq(signature, bl + 1, Len(signature))),
                  order(c)))
        k  == bytes_to_int(
                  hash_func(c, dom(c) \o to_bytes(c, R) \o self.encoded \o data))
    IN  IF Len(signature) # 2 * bl
        THEN [res |-> "InvalidSignatureLength", muls |-> 0, adds |-> 0]
        ELSE IF R = None
        THEN [res |-> "InvalidEncodedPoint", muls |-> 0, adds |-> 0]
        ELSE IF scalar_mul(c, generator(c), S)
                    # point_add(c, scalar_mul(c, self.point, k), R)
        THEN [res |-> "SignatureVerificationFailed", muls |-> 2, adds |-> 1]
        ELSE [res |-> "True", muls |-> 2, adds |-> 1]

\* variant of PublicKey.verify: the range of S is checked before R_bytes is
\* decoded
PublicKey_verify_reorder(self, data, signature) ==
    LET c  == self.curve
        bl == baselen(c)
        R  == from_bytes(c, SubSeq(signature, 1, bl))
        S  == bytes_to_int(SubSeq(signature, bl + 1, Len(signature)))
        k  == bytes_to_int(
                  hash_func(c, dom(c) \o to_bytes(c, R) \o self.encoded \o data))
    IN  IF Len(signature) # 2 * bl
        THEN [res |-> "InvalidSignatureLength", muls |-> 0, adds |-> 0]
        ELSE IF IntGE(S, NatToInt(order(c)))
        THEN [res |-> "InvalidSignatureValue", muls |-> 0, adds |-> 0]
        ELSE IF R = None
        THEN [res |-> "InvalidEncodedPoint", muls |-> 0, adds |-> 0]
        ELSE IF scalar_mul(c, generator(c), S)
                    # point_add(c, scalar_mul(c, self.point, k), R)
        THEN [res |-> "SignatureVerificationFailed", muls |-> 2, adds |-> 1]
        ELSE [res |-> "True", muls |-> 2, adds |-> 1]

\* PublicKey.verify(data, signature): the outcome, with the number of scalar
\* multiplications and point additions the call asked of the engine
PublicKey_verify(self, data, signature) ==
    LET c  == self.curve
        bl == baselen(c)
        R  == from_bytes(c, SubSeq(signature, 1, bl))
        S  == bytes_to_int(SubSeq(signature, bl + 1, Len(signature)))
        k  == bytes_to_int(
                  hash_func(c, dom(c) \o to_bytes(c, R) \o self.encoded \o data))
    IN  IF Len(signature) # 2 * bl
        THEN [res |-> "InvalidSignatureLength", muls |-> 0, adds |-> 0]
        ELSE IF R = None
        THEN [res |-> "InvalidEncodedPoint", muls |-> 0, adds |-> 0]
        ELSE IF IntGE(S, NatToInt(order(c)))
        THEN [res |-> "InvalidSignatureValue", muls |-> 0, adds |-> 0]
        ELSE IF scalar_mul(c, generator(c), S)
                    # point_add(c, scalar_mul(c, self.point, k), R)
        THEN [res |-> "SignatureVerificationFailed", muls |-> 2, adds |-> 1]
        ELSE [res |-> "True", muls |-> 2, adds |-> 1]

(***************************************************************************)
(* class PrivateKey                                                        *)
(***************************************************************************)
NoPriv ==
    [curve |-> "None", private_key |-> <<>>, h |-> <<>>, s |-> <<>>,
     public_key |-> NoPub, built |-> 0]

\* variant of PrivateKey.__init__: only seeds that are too short are refused
PrivateKey_init_short(c, private_key) ==
    IF Len(private_key) < baselen(c)
    THEN [err |-> "InvalidKeyLength", obj |-> NoPriv]
    ELSE LET h      == hash_func(c, private_key)
             a      == _key_prune(c, SubSeq(h, 1, baselen(c)))
             scalar == bytes_to_int(a)
         IN  [err |-> "",
              obj |-> [curve |-> c, private_key |-> private_key, h |-> h,
                       s |-> scalar, public_key |-> NoPub, built |-> 0]]

\* PrivateKey.__init__(generator, private_key).  built counts the
\* evaluations of generator * self.__s by this object.
PrivateKey_init(c, private_key) ==
    IF Len(private_key) # baselen(c)
    THEN [err |-> "InvalidKeyLength", obj |-> NoPriv]
    ELSE LET h      == hash_func(c, private_key)
             a      == _key_prune(c, SubSeq(h, 1, baselen(c)))
             scalar == bytes_to_int(a)
         IN  [err |-> "",
              obj |-> [curve |-> c, private_key |-> private_key, h |-> h,
                       s |-> scalar, public_key |-> NoPub, built |-> 0]]

\* variant of PrivateKey.public_key: the cache is not consulted
PrivateKey_public_key_nocache(self) ==
    LET c            == self.curve
        public_point == scalar_mul(c, generator(c), self.s)
        made == PublicKey_init(c, to_bytes(c, public_point), public_point)
        after == [self EXCEPT !.public_key = made.obj,
                              !.built = self.built + 1]
    IN  [self |-> after, ret |-> after.public_key]

\* PrivateKey.public_key(): the object after the call and the value returned
PrivateKey_public_key(self) ==
    IF ~IsNone(self.public_key)
    THEN [self |-> self, ret |-> self.public_key]
    ELSE LET c            == self.curve
             public_point == scalar_mul(c, generator(c), self.s)
             made == PublicKey_init(c, to_bytes(c, public_point), public_point)
             after == [self EXCEPT !.public_key = made.obj,
                                   !.built = self.built + 1]
         IN  [self |-> after, ret |-> after.public_key]

\* variant of SignWith: the public key is left out of the hash that gives k
SignWithoutA(self, A, data) ==
    LET c      == self.curve
        prefix == SubSeq(self.h, baselen(c) + 1, Len(self.h))
        r      == bytes_to_int(hash_func(c, dom(c) \o prefix \o data))
        R      == to_bytes(c, scalar_mul(c, generator(c), r))
        k      == IntMod(bytes_to_int(hash_func(c, dom(c) \o R \o data)),
                         order(c))
        S      == (IntMod(r, order(c)) + k * IntMod(self.s, order(c)))
                      % order(c)
    IN  R \o int_to_bytes(NatToInt(S), baselen(c))

\* PrivateKey.sign after A is known: prefix, r, R, k and S.
\* (r + k * s) % order is computed from the residues of r and s.
SignWith(self, A, data) ==
    LET c      == self.curve
        prefix == SubSeq(self.h, baselen(c) + 1, Len(self.h))
        r      == bytes_to_int(hash_func(c, dom(c) \o prefix \o data))
        R      == to_bytes(c, scalar_mul(c, generator(c), r))
        k      == IntMod(bytes_to_int(hash_func(c, dom(c) \o R \o A \o data)),
                         order(c))
        S      == (IntMod(r, order(c)) + k * IntMod(self.s, order(c)))
                      % order(c)
    IN  R \o int_to_bytes(NatToInt(S), baselen(c))

\* variant of PrivateKey.sign: A is read from the cache attribute, which is
\* still empty on the first call
PrivateKey_sign_cache(self, data) ==
    LET called == PrivateKey_public_key(self)
    IN  [self |-> called.self,
         ret  |-> SignWith(called.self, self.public_key.encoded, data)]

\* PrivateKey.sign(data): the object after the call and the signature
PrivateKey_sign(self, data) ==
    LET called == PrivateKey_public_key(self)
    IN  [self |-> called.self,
         ret  |-> SignWith(called.self, called.ret.encoded, data)]

(***************************************************************************)
(* Inputs                                                                  *)
(***************************************************************************)
NSeeds == 2

MaxMsgLen == 2

\* seeds of the length the curve asks for
Seeds(c) == {[i \in 1..baselen(c) |-> (k * i) % 256] : k \in 1..NSeeds}

\* seeds one byte short and one byte long
BadSeeds(c) == {Zeros(baselen(c) - 1), Zeros(baselen(c) + 1)}

\* "", "a", "ab", ...
Messages == {[i \in 1..n |-> 96 + i] : n \in 0..MaxMsgLen}

\* encodings handed to the PublicKey constructor: of the base point, of the
\* neutral element, one that does not decode, one byte short, one byte long
Encodings(c) ==
    {to_bytes(c, generator(c)), to_bytes(c, 0),
     [i \in 1..baselen(c) |-> 255],
     Zeros(baselen(c) - 1), Zeros(baselen(c) + 1)}

\* the optional third argument of the PublicKey constructor
SuppliedPoints(c) == {None, generator(c)}

(***************************************************************************)
(* State                                                                   *)
(***************************************************************************)
VARIABLES
    gen,    \* the curve whose generator the caller works with
    sk,     \* the PrivateKey object in use (NoPriv before any is constructed)
    pk,     \* the PublicKey object in use (NoPub before any is constructed)
    buf,    \* a message and signature in flight, with the signed originals
    last,   \* the last call: its arguments and what it returned or raised
    shared, \* a PrivateKey object used by several threads at once
    heap,   \* the PublicKey objects those threads have allocated
    thr,    \* each thread's place in public_key() or sign() and its locals
    pin,    \* the byte string handed to _key_prune
    pout    \* the byte string _key_prune returned (empty before the call)

seqVars == <<sk, pk, buf, last>>

concVars == <<shared, heap, thr>>

pruneVars == <<pin, pout>>

vars == <<gen, sk, pk, buf, last, shared, heap, thr, pin, pout>>

NoBuf ==
    [seed |-> <<>>, omsg |-> <<>>, osig |-> <<>>,
     msg |-> <<>>, sig |-> <<>>, cached |-> FALSE]

NoCall ==
    [op |-> "none", res |-> "", arglen |-> 0,
     given |-> FALSE, new |-> FALSE, msg |-> <<>>, sig |-> <<>>,
     ret |-> NoPub, cached |-> FALSE, muls |-> 0, adds |-> 0]

NThreads == 2

Threads == 1..NThreads

\* a thread outside any call
Idle ==
    [pc |-> "idle", op |-> "none", point |-> None, obj |-> 0, ret |-> 0,
     sig |-> <<>>]

\* the variables a specification does not use
NoSeq == sk = NoPriv /\ pk = NoPub /\ buf = NoBuf /\ last = NoCall

NoConc ==
    /\ shared = [curve |-> "None", h |-> <<>>, s |-> <<>>, public_key |-> 0]
    /\ heap = <<>>
    /\ thr = [t \in Threads |-> Idle]

NoPrune == pin = <<>> /\ pout = <<>>

Init ==
    /\ gen \in Curves
    /\ NoSeq
    /\ NoConc
    /\ NoPrune

(***************************************************************************)
(* Calls                                                                   *)
(***************************************************************************)
\* PrivateKey(generator, seed)
NewPrivateKey(seed) ==
    LET made == PrivateKey_init(gen, seed)
    IN  /\ sk' = IF made.err = "" THEN made.obj ELSE sk
        /\ last' = [NoCall EXCEPT !.op = "PrivateKey", !.res = made.err,
                                  !.arglen = Len(seed),
                                  !.new = ~(made.obj = NoPriv)]
        /\ UNCHANGED <<gen, pk, buf>>

\* PublicKey(generator, encoded) and PublicKey(generator, encoded, point)
NewPublicKey(enc, pt) ==
    LET made == PublicKey_init(gen, enc, pt)
    IN  /\ pk' = IF made.err = "" THEN made.obj ELSE pk
        /\ last' = [NoCall EXCEPT !.op = "PublicKey", !.res = made.err,
                                  !.arglen = Len(enc),
                                  !.given = (pt # None),
                                  !.new = ~IsNone(made.obj)]
        /\ UNCHANGED <<gen, sk, buf>>

\* sk.public_key(); the caller keeps the returned object or drops it
CallPublicKey(keep) ==
    /\ sk # NoPriv
    /\ LET called == PrivateKey_public_key(sk)
       IN  /\ sk' = called.self
           /\ pk' = IF keep THEN called.ret ELSE pk
           /\ last' = [NoCall EXCEPT !.op = "public_key",
                                     !.ret = called.ret,
                                     !.cached = ~IsNone(sk.public_key)]
    /\ UNCHANGED <<gen, buf>>

\* sk.sign(m); the signature is put in flight (send) or not
SignCall(m, sends) ==
    /\ sk # NoPriv
    /\ LET called == PrivateKey_sign(sk, m)
           was    == ~IsNone(sk.public_key)
       IN  /\ sk' = called.self
           /\ last' = [NoCall EXCEPT !.op = "sign", !.msg = m,
                                     !.sig = called.ret, !.cached = was]
           /\ \E send \in sends :
                buf' = IF send
                       THEN [seed |-> sk.private_key,
                             omsg |-> m, osig |-> called.ret,
                             msg |-> m, sig |-> called.ret, cached |-> was]
                       ELSE buf
    /\ UNCHANGED <<gen, pk>>

CallSign(m) == SignCall(m, BOOLEAN)

\* pk.verify(buf.msg, buf.sig)
CallVerify ==
    /\ ~IsNone(pk)
    /\ buf # NoBuf
    /\ LET out == PublicKey_verify(pk, buf.msg, buf.sig)
       IN  last' = [NoCall EXCEPT !.op = "verify", !.res = out.res,
                                  !.msg = buf.msg, !.sig = buf.sig,
                                  !.muls = out.muls, !.adds = out.adds]
    /\ UNCHANGED <<gen, sk, pk, buf>>

(***************************************************************************)
(* Spec: one private key at a time, constructed, asked for its public key  *)
(* and made to sign, in any order                                          *)
(***************************************************************************)
Next ==
    /\ \/ \E seed \in Seeds(gen) : NewPrivateKey(seed)
       \/ CallPublicKey(FALSE)
       \/ \E m \in Messages : CallSign(m)
    /\ UNCHANGED <<concVars, pruneVars>>

Spec == Init /\ [][Next]_vars

(***************************************************************************)
(* SpecKeys: the constructors, with arguments of every length              *)
(***************************************************************************)
NextKeys ==
    /\ \/ \E seed \in Seeds(gen) \cup BadSeeds(gen) : NewPrivateKey(seed)
       \/ \E enc \in Encodings(gen) : \E pt \in SuppliedPoints(gen) :
             NewPublicKey(enc, pt)
       \/ \E keep \in BOOLEAN : CallPublicKey(keep)
    /\ UNCHANGED <<concVars, pruneVars>>

SpecKeys == Init /\ [][NextKeys]_vars

(***************************************************************************)
(* SpecVerify: a key pair, one signed message in flight, changed on the    *)
(* way and verified                                                        *)
(***************************************************************************)
InitVerify ==
    /\ gen \in Curves
    /\ \E seed \in Seeds(gen) :
          LET called == PrivateKey_public_key(PrivateKey_init(gen, seed).obj)
          IN  sk = called.self /\ pk = called.ret
    /\ buf = NoBuf
    /\ last = NoCall
    /\ NoConc
    /\ NoPrune

\* the signer signs m and sends it
Send(m) == buf = NoBuf /\ SignCall(m, {TRUE})

FlipBit(b, j, i) == [b EXCEPT ![j] = Xor(b[j], 2 ^ i)]

Changed == [NoCall EXCEPT !.op = "change"]

\* the bits of a signature that are flipped: every bit of the first byte of
\* R_bytes and of S_bytes, and the top bit of the last byte of each
SigBits(c) ==
    {<<j, i>> \in {1, baselen(c) + 1} \X (0..7) : TRUE}
        \cup {<<baselen(c), 7>>, <<2 * baselen(c), 7>>}

TopBits(c) == {<<baselen(c), 7>>, <<2 * baselen(c), 7>>}

RPart(sig) == SubSeq(sig, 1, baselen(gen))

SPart(sig) == SubSeq(sig, baselen(gen) + 1, Len(sig))

\* one bit of the message in flight is flipped
FlipMsgBit(j, i) ==
    /\ buf # NoBuf
    /\ buf.msg = buf.omsg /\ buf.sig = buf.osig
    /\ j \in 1..Len(buf.msg)
    /\ buf' = [buf EXCEPT !.msg = FlipBit(buf.msg, j, i)]
    /\ last' = Changed
    /\ UNCHANGED <<gen, sk, pk>>

\* one bit of the signature in flight is flipped; a second one only among
\* the top bits
FlipSigBit(j, i) ==
    /\ buf # NoBuf
    /\ buf.msg = buf.omsg
    /\ Len(buf.sig) = Len(buf.osig)
    /\ <<j, i>> \in SigBits(gen)
    /\ \/ buf.sig = buf.osig
       \/ /\ <<j, i>> \in TopBits(gen)
          /\ \E q \in SigBits(gen) : buf.sig = FlipBit(buf.osig, q[1], q[2])
    /\ buf' = [buf EXCEPT !.sig = FlipBit(buf.sig, j, i)]
    /\ last' = Changed
    /\ UNCHANGED <<gen, sk, pk>>

\* S_bytes is replaced by the encoding of v
SetS(v) ==
    /\ buf # NoBuf
    /\ buf.msg = buf.omsg
    /\ Len(buf.sig) = Len(buf.osig)
    /\ SPart(buf.sig) = SPart(buf.osig)
    /\ \/ RPart(buf.sig) = RPart(buf.osig)
       \/ RPart(buf.sig) = FlipBit(RPart(buf.osig), baselen(gen), 7)
    /\ int_to_bytes(NatToInt(v), baselen(gen)) # SPart(buf.osig)
    /\ buf' = [buf EXCEPT !.sig = RPart(buf.sig)
                                    \o int_to_bytes(NatToInt(v), baselen(gen))]
    /\ last' = Changed
    /\ UNCHANGED <<gen, sk, pk>>

\* the last byte of the signature is lost
Truncate ==
    /\ buf # NoBuf
    /\ buf.msg = buf.omsg
    /\ Len(buf.sig) = Len(buf.osig)
    /\ buf' = [buf EXCEPT !.sig = SubSeq(buf.sig, 1, Len(buf.sig) - 1)]
    /\ last' = Changed
    /\ UNCHANGED <<gen, sk, pk>>

\* a byte is appended to the signature
Extend ==
    /\ buf # NoBuf
    /\ buf.msg = buf.omsg
    /\ Len(buf.sig) = Len(buf.osig)
    /\ buf' = [buf EXCEPT !.sig = buf.sig \o <<0>>]
    /\ last' = Changed
    /\ UNCHANGED <<gen, sk, pk>>

NextVerify ==
    /\ \/ \E m \in Messages : Send(m)
       \/ \E j \in 1..MaxMsgLen : \E i \in 0..7 : FlipMsgBit(j, i)
       \/ \E q \in SigBits(gen) : FlipSigBit(q[1], q[2])
       \/ \E v \in 0..(order(gen) + 1) : SetS(v)
       \/ Truncate
       \/ Extend
       \/ CallVerify
    /\ UNCHANGED <<concVars, pruneVars>>

SpecVerify == InitVerify /\ [][NextVerify]_vars

(***************************************************************************)
(* SpecConc: threads calling public_key() and sign() on one PrivateKey.    *)
(* An attribute read or write is one step; a PublicKey object lives on the *)
(* heap from its allocation on, its fields unset until __init__ sets them. *)
(***************************************************************************)
\* an allocated PublicKey object before __init__ has run
Blank == [curve |-> "None", encoded |-> <<>>, point |-> None]

\* the object has all its fields
Built(o) == o.curve # "None" /\ o.encoded # <<>> /\ o.point # None

\* the message the threads sign
ConcMsg == <<97>>

\* the seed of the key the threads share
ConcSeed(c) == [i \in 1..baselen(c) |-> i]

InitConc ==
    /\ gen \in Curves
    /\ LET made == PrivateKey_init(gen, ConcSeed(gen)).obj
       IN  shared = [curve |-> made.curve, h |-> made.h, s |-> made.s,
                     public_key |-> 0]
    /\ heap = <<>>
    /\ thr = [t \in Threads |-> Idle]
    /\ NoSeq
    /\ NoPrune

\* thread t enters public_key(), directly or from sign()
ConcCall(t, op) ==
    /\ thr[t].pc = "idle"
    /\ thr' = [thr EXCEPT ![t].pc = "check", ![t].op = op]
    /\ UNCHANGED <<shared, heap>>

\* if self.__public_key:
ConcCheck(t) ==
    /\ thr[t].pc = "check"
    /\ thr' = [thr EXCEPT ![t].pc =
                  IF shared.public_key # 0 THEN "load" ELSE "mul"]
    /\ UNCHANGED <<shared, heap>>

\* public_point = self.generator * self.__s
ConcMul(t) ==
    /\ thr[t].pc = "mul"
    /\ thr' = [thr EXCEPT ![t].pc = "new",
                          ![t].point = scalar_mul(shared.curve,
                                           generator(shared.curve), shared.s)]
    /\ UNCHANGED <<shared, heap>>

\* variant of ConcNew: the new object is stored in the cache at once and
\* initialised afterwards
ConcNewStored(t) ==
    /\ thr[t].pc = "new"
    /\ heap' = Append(heap, Blank)
    /\ thr' = [thr EXCEPT ![t].pc = "encoded", ![t].obj = Len(heap) + 1]
    /\ shared' = [shared EXCEPT !.public_key = Len(heap) + 1]

\* PublicKey(...): the object is allocated; only this thread refers to it
ConcNew(t) ==
    /\ thr[t].pc = "new"
    /\ heap' = Append(heap, Blank)
    /\ thr' = [thr EXCEPT ![t].pc = "encoded", ![t].obj = Len(heap) + 1]
    /\ UNCHANGED shared

\* PublicKey.__init__: generator, curve, __encoded, baselen, length check
ConcInitEncoded(t) ==
    /\ thr[t].pc = "encoded"
    /\ heap' = [heap EXCEPT ![thr[t].obj] =
                   [@ EXCEPT !.curve = shared.curve,
                             !.encoded = to_bytes(shared.curve, thr[t].point)]]
    /\ thr' = [thr EXCEPT ![t].pc = "point"]
    /\ UNCHANGED shared

\* PublicKey.__init__: self.__point = public_point
ConcInitPoint(t) ==
    /\ thr[t].pc = "point"
    /\ heap' = [heap EXCEPT ![thr[t].obj] = [@ EXCEPT !.point = thr[t].point]]
    /\ thr' = [thr EXCEPT ![t].pc = "store"]
    /\ UNCHANGED shared

\* self.__public_key = the constructed object
ConcPublish(t) ==
    /\ thr[t].pc = "store"
    /\ shared' = [shared EXCEPT !.public_key = thr[t].obj]
    /\ thr' = [thr EXCEPT ![t].pc = "load"]
    /\ UNCHANGED heap

\* return self.__public_key
ConcReturn(t) ==
    /\ thr[t].pc = "load"
    /\ thr' = [thr EXCEPT ![t].ret = shared.public_key,
                          ![t].pc = IF thr[t].op = "sign" THEN "sign"
                                    ELSE "done"]
    /\ UNCHANGED <<shared, heap>>

\* the rest of sign(): A = the returned key's encoding, then the signature
ConcSign(t) ==
    /\ thr[t].pc = "sign"
    /\ thr' = [thr EXCEPT ![t].pc = "done",
                          ![t].sig = SignWith(shared,
                                         heap[thr[t].ret].encoded, ConcMsg)]
    /\ UNCHANGED <<shared, heap>>

NextConc ==
    /\ \/ \E t \in Threads : \E op \in {"public_key", "sign"} : ConcCall(t, op)
       \/ \E t \in Threads : ConcCheck(t)
       \/ \E t \in Threads : ConcMul(t)
       \/ \E t \in Threads : ConcNew(t)
       \/ \E t \in Threads : ConcInitEncoded(t)
       \/ \E t \in Threads : ConcInitPoint(t)
       \/ \E t \in Threads : ConcPublish(t)
       \/ \E t \in Threads : ConcReturn(t)
       \/ \E t \in Threads : ConcSign(t)
    /\ UNCHANGED <<gen, seqVars, pruneVars>>

SpecConc == InitConc /\ [][NextConc]_vars

(***************************************************************************)
(* SpecPrune: _key_prune applied to byte strings of length baselen         *)
(***************************************************************************)
NFills == 2

\* the values tried for the first, the last but one and the last byte
ByteSamples == {0, 1, 7, 8, 63, 64, 127, 128, 255}

PruneInputs(c) ==
    {[i \in 1..baselen(c) |->
        IF i = 1 THEN f
        ELSE IF i = baselen(c) - 1 THEN y
        ELSE IF i = baselen(c) THEN z
        ELSE (fill * 165 + (fill - 1) * i) % 256] :
     f \in ByteSamples, y \in ByteSamples, z \in ByteSamples,
     fill \in 1..NFills}

InitPrune ==
    /\ gen \in Curves
    /\ pin \in PruneInputs(gen)
    /\ pout = <<>>
    /\ NoSeq
    /\ NoConc

\* a = self._key_prune(a)
DoPrune ==
    /\ pout = <<>>
    /\ pout' = _key_prune(gen, pin)
    /\ UNCHANGED <<gen, pin, seqVars, concVars>>

SpecPrune == InitPrune /\ [][DoPrune]_vars

(***************************************************************************)
(* Properties                                                              *)
(***************************************************************************)
Bl == baselen(gen)

Errors ==
    {"InvalidSignatureLength", "InvalidEncodedPoint", "InvalidSignatureValue",
     "SignatureVerificationFailed"}

\* what was verified is what was signed
Intact == last.msg = buf.omsg /\ last.sig = buf.osig

\* pk is the key sk.public_key() returned and sk signed what is in flight
Matching ==
    /\ ~IsNone(sk.public_key)
    /\ pk = sk.public_key
    /\ buf.seed = sk.private_key

\* S_bytes is the encoding of v
SIs(sig, v) == SPart(sig) = int_to_bytes(NatToInt(v), Bl)

\* S_bytes encodes a value below the order
SInRange(sig) == \E v \in 0..(order(gen) - 1) : SIs(sig, v)

RDecodes(sig) == from_bytes(gen, RPart(sig)) # None

\* the hash of R, the public key and the message, as an integer
Challenge(key, R, data) ==
    bytes_to_int(hash_func(gen, dom(gen) \o to_bytes(gen, R) \o key.encoded
                                \o data))

\* generator * S == point * k + R
EquationHolds(key, data, sig) ==
    LET R == from_bytes(gen, RPart(sig))
    IN  scalar_mul(gen, generator(gen), bytes_to_int(SPart(sig)))
            = point_add(gen, scalar_mul(gen, key.point,
                                        Challenge(key, R, data)), R)

\* a and b have the same length and differ in exactly one bit
OneBit(a, b) ==
    /\ Len(a) = Len(b)
    /\ LET diff == {j \in 1..Len(a) : a[j] # b[j]}
       IN  /\ Cardinality(diff) = 1
           /\ \A j \in diff : Xor(a[j], b[j]) \in {2 ^ i : i \in 0..7}

\* C1: verify(message, sign(message)), called on the key public_key()
\* returned, succeeds, for both curves and every seed and message.
RoundTrip ==
    (last.op = "verify" /\ Matching /\ Intact) => last.res = "True"

RoundTripSeen ==
    /\ last.op = "verify" /\ Matching /\ Intact
    /\ gen = "ed448" /\ last.msg = <<>>
    /\ last.res = "True"

\* C2: sign returns the same bytes for the same curve, seed and message,
\* whether or not the public key was cached and whichever PrivateKey object
\* built from the seed is asked.
Deterministic ==
    (last.op = "sign" /\ buf # NoBuf /\ buf.seed = sk.private_key
        /\ buf.omsg = last.msg)
    => last.sig = buf.osig

DeterministicSeen ==
    /\ last.op = "sign" /\ buf # NoBuf /\ buf.seed = sk.private_key
    /\ buf.omsg = last.msg
    /\ last.cached /\ ~buf.cached
    /\ last.sig = buf.osig

\* C3: for a signature of the right length whose R_bytes decode, verify
\* raises InvalidSignatureValue exactly when S >= order; with S = order - 1
\* (as with any S below the order) the verification equation decides.
SRange ==
    (last.op = "verify" /\ Len(last.sig) = 2 * Bl /\ RDecodes(last.sig))
    => /\ (last.res = "InvalidSignatureValue") <=> ~SInRange(last.sig)
       /\ \A v \in {order(gen), order(gen) + 1} :
             SIs(last.sig, v) => last.res = "InvalidSignatureValue"
       /\ SInRange(last.sig) =>
             last.res = IF EquationHolds(pk, last.msg, last.sig)
                        THEN "True" ELSE "SignatureVerificationFailed"

SRangeSeen ==
    /\ last.op = "verify"
    /\ SIs(last.sig, order(gen) - 1)
    /\ last.res = "True"

\* C4: a seed or an encoding whose length is not baselen is refused with
\* InvalidKeyLength and no object is made; one of length baselen is never
\* refused with InvalidKeyLength.
KeyLength ==
    (last.op \in {"PrivateKey", "PublicKey"})
    => /\ (last.res = "InvalidKeyLength") <=> (last.arglen # Bl)
       /\ (last.res = "InvalidKeyLength") => ~last.new
       /\ Bl = IF gen = "ed25519" THEN 32 ELSE 57

KeyLengthSeen ==
    /\ last.op = "PrivateKey"
    /\ gen = "ed448"
    /\ last.arglen = 58
    /\ last.res = "InvalidKeyLength"

\* C5: in a series of public_key() and sign() calls on one PrivateKey the
\* point generator * s is computed once, by the first call; the cache is
\* filled then and never changes; public_key() returns the cached object.
MemoState ==
    /\ sk # NoPriv => sk.built = IF IsNone(sk.public_key) THEN 0 ELSE 1
    /\ last.op \in {"public_key", "sign"} =>
          ~IsNone(sk.public_key) /\ sk.built = 1
    /\ last.op = "public_key" =>
          last.ret = sk.public_key /\ PublicKey_eq(last.ret, sk.public_key)

MemoStep ==
    (~IsNone(sk.public_key) /\ last'.op \in {"public_key", "sign"})
    => sk'.public_key = sk.public_key /\ sk'.built = sk.built

Memoized == []MemoState /\ [][MemoStep]_vars

MemoizedSeen ==
    /\ last.op = "public_key"
    /\ last.cached
    /\ sk.built = 1

\* C6: with threads racing through the first public_key(), the cache is
\* empty or refers to a fully constructed PublicKey for generator * s,
\* every caller is returned such a key, and all returned keys are equal.
IsThePublicKey(o) ==
    /\ Built(o)
    /\ o.curve = shared.curve
    /\ o.point = scalar_mul(shared.curve, generator(shared.curve), shared.s)
    /\ o.encoded = to_bytes(shared.curve, o.point)

Returned == {t \in Threads : thr[t].pc \in {"sign", "done"}}

RaceSafe ==
    /\ shared.public_key # 0 => IsThePublicKey(heap[shared.public_key])
    /\ \A t \in Returned :
          thr[t].ret # 0 /\ IsThePublicKey(heap[thr[t].ret])
    /\ \A t, u \in Returned :
          PublicKey_eq(heap[thr[t].ret], heap[thr[u].ret])

RaceSafeSeen ==
    \E t, u \in Threads :
        /\ thr[t].pc = "done" /\ thr[u].pc = "done"
        /\ thr[t].ret # thr[u].ret

\* C7 as stated: after a change of one bit of the message, of R_bytes or of
\* S_bytes, verify never succeeds, and for fixed message and R_bytes at
\* most one S below the order is accepted.
BitChanged ==
    \/ OneBit(last.msg, buf.omsg) /\ last.sig = buf.osig
    \/ last.msg = buf.omsg /\ OneBit(last.sig, buf.osig)

OneS ==
    (last.op = "verify" /\ last.res = "True" /\ last.msg = buf.omsg
        /\ Len(last.sig) = 2 * Bl /\ RPart(last.sig) = RPart(buf.osig))
    => last.sig = buf.osig

TamperS ==
    (last.op = "verify" /\ Matching /\ last.msg = buf.omsg
        /\ OneBit(last.sig, buf.osig) /\ RPart(last.sig) = RPart(buf.osig))
    => last.res = IF SInRange(last.sig) THEN "SignatureVerificationFailed"
                  ELSE "InvalidSignatureValue"

TamperMsg ==
    (last.op = "verify" /\ Matching /\ OneBit(last.msg, buf.omsg)
        /\ last.sig = buf.osig)
    => LET R == from_bytes(gen, RPart(buf.osig))
           same == scalar_mul(gen, pk.point, Challenge(pk, R, last.msg))
                     = scalar_mul(gen, pk.point, Challenge(pk, R, buf.omsg))
       IN  last.res = IF same THEN "True" ELSE "SignatureVerificationFailed"

TamperR ==
    (last.op = "verify" /\ Matching /\ last.msg = buf.omsg
        /\ OneBit(last.sig, buf.osig) /\ SPart(last.sig) = SPart(buf.osig))
    => IF ~RDecodes(last.sig) THEN last.res = "InvalidEncodedPoint"
       ELSE last.res = IF EquationHolds(pk, last.msg, last.sig)
                       THEN "True" ELSE "SignatureVerificationFailed"

Consistent(o) == IsNone(o) \/ to_bytes(o.curve, o.point) = o.encoded

AllConsistent == Consistent(pk) /\ Consistent(sk.public_key)

\* C9: _key_prune clears the lowest log2(cofactor) bits, sets bit l - 1,
\* clears every bit from l on and leaves the other bits as they were, so
\* the result is a multiple of the cofactor of bit length l.
BitAt(b, n) == Bit(b[(n \div 8) + 1], n % 8)

BitLength(n) ==
    IF n = <<>> THEN 0
    ELSE 8 * (Len(n) - 1)
           + Cardinality({i \in 0..7 : 2 ^ i <= n[Len(n)]})

Pruned ==
    pout # <<>> =>
       LET l     == PBits(gen)
           h_log == IF cofactor(gen) = 8 THEN 3 ELSE 2
       IN  /\ Len(pout) = Len(pin)
           /\ \A n \in 0..(8 * Len(pin) - 1) :
                 BitAt(pout, n) =
                    IF n < h_log THEN 0
                    ELSE IF n = l - 1 THEN 1
                    ELSE IF n >= l THEN 0
                    ELSE BitAt(pin, n)
           /\ IntMod(bytes_to_int(pout), cofactor(gen)) = 0
           /\ BitLength(bytes_to_int(pout)) = l

PrunedSeen ==
    /\ pout # <<>>
    /\ gen = "ed25519"
    /\ pin[1] = 255 /\ pin[Len(pin)] = 128
    /\ pout[1] = 248 /\ pout[Len(pout)] = 64

\* C10: verify checks the length, then decodes R_bytes, then checks
\* S < order, then the equation; the first check that fails gives the
\* error, and no scalar multiplication or point addition is done unless
\* the first three checks pass.
Expected(key, data, sig) ==
    IF Len(sig) # 2 * Bl THEN "InvalidSignatureLength"
    ELSE IF ~RDecodes(sig) THEN "InvalidEncodedPoint"
    ELSE IF ~SInRange(sig) THEN "InvalidSignatureValue"
    ELSE IF ~EquationHolds(key, data, sig) THEN "SignatureVerificationFailed"
    ELSE "True"

CheckOrder ==
    last.op = "verify" =>
       /\ last.res = Expected(pk, last.msg, last.sig)
       /\ last.res \in {"InvalidSignatureLength", "InvalidEncodedPoint",
                        "InvalidSignatureValue"}
             => last.muls = 0 /\ last.adds = 0

CheckOrderSeen ==
    /\ last.op = "verify"
    /\ Len(last.sig) = 2 * Bl
    /\ ~RDecodes(last.sig)
    /\ ~SInRange(last.sig)
    /\ last.res = "InvalidEncodedPoint"

====
